---- MODULE Spec2Model ----
(***************************************************************************)
(* CTOAICode (src/cto_ai_code.py): a facade that resolves an API key at    *)
(* construction and offers generate_code, review_code and explain_code,   *)
(* all three answered by the mock implementations.                        *)
(*                                                                         *)
(* A Python str is a sequence of one-character strings.  An Optional[str] *)
(* is None (the empty tuple) or Some(s) (the one-element tuple holding s). *)
(***************************************************************************)
EXTENDS Integers, Sequences, FiniteSets, TLC

VARIABLES
    env,      \* os.environ: variable name -> Optional[str] (None: not set)
    facades,  \* the CTOAICode objects: slot -> object, NoObject before construction
    cons,     \* per slot, what its constructor call was given and did (history)
    stdout,   \* the lines printed so far
    frames,   \* per caller, the call it is in or has last completed
    heap      \* the dicts review_code has returned and that are still referenced

vars == <<env, facades, cons, stdout, frames, heap>>

--------------------------------------------------------------------------
(* Python values *)

None == << >>
Some(s) == << s >>

\* bool(v) for an Optional[str]: None and "" are falsy
Truthy(v) == v # None /\ v[1] # << >>

\* no exception
NoExc == "no exception"

\* no object bound yet
NoObject == [unbound |-> TRUE]

\* hasattr(obj, attr)
HasAttr(obj, attr) == attr \in DOMAIN obj

--------------------------------------------------------------------------
(* string literals of the source *)

\* the warning printed by __init__, up to {provider}
WarnHead ==
    <<
       "W", "a", "r", "n", "i", "n", "g", ":", " ", "N", "o", " ", "A", "P", "I", " ", "k",
       "e", "y", " ", "p", "r", "o", "v", "i", "d", "e", "d", " ", "f", "o", "r", " "
    >>
\* suffix of the environment variable's name
ApiKeySuffix ==
    <<
       "_", "A", "P", "I", "_", "K", "E", "Y"
    >>
\* _mock_generate_code's f-string, up to {language}
GenHead ==
    <<
       "#", " ", "G", "e", "n", "e", "r", "a", "t", "e", "d", " "
    >>
\* ... between {language} and {prompt}
GenFor ==
    <<
       " ", "c", "o", "d", "e", " ", "f", "o", "r", ":", " "
    >>
\* ... after {prompt}: the fixed boilerplate function
GenBody ==
    <<
       "\n", "\n", "d", "e", "f", " ", "e", "x", "a", "m", "p", "l", "e", "_", "f", "u",
       "n", "c", "t", "i", "o", "n", "(", ")", ":", "\n", " ", " ", " ", " ", "\"", "\"",
       "\"", "\n", " ", " ", " ", " ", "T", "h", "i", "s", " ", "i", "s", " ", "a", " ",
       "m", "o", "c", "k", " ", "i", "m", "p", "l", "e", "m", "e", "n", "t", "a", "t", "i",
       "o", "n", ".", "\n", " ", " ", " ", " ", "I", "n", " ", "p", "r", "o", "d", "u",
       "c", "t", "i", "o", "n", ",", " ", "t", "h", "i", "s", " ", "w", "o", "u", "l", "d",
       " ", "u", "s", "e", " ", "a", "n", " ", "A", "I", " ", "A", "P", "I", " ", "t", "o",
       " ", "g", "e", "n", "e", "r", "a", "t", "e", " ", "a", "c", "t", "u", "a", "l", " ",
       "c", "o", "d", "e", ".", "\n", " ", " ", " ", " ", "\"", "\"", "\"", "\n", " ", " ",
       " ", " ", "p", "r", "i", "n", "t", "(", "\"", "H", "e", "l", "l", "o", " ", "f",
       "r", "o", "m", " ", "C", "T", "O", " ", "A", "I", " ", "C", "o", "d", "e", "!",
       "\"", ")", "\n", " ", " ", " ", " ", "r", "e", "t", "u", "r", "n", " ", "T", "r",
       "u", "e", "\n"
    >>
\* _mock_explain_code's f-string, up to {lines}
ExplainHead ==
    <<
       "C", "o", "d", "e", " ", "A", "n", "a", "l", "y", "s", "i", "s", ":", "\n", "-",
       " ", "T", "h", "i", "s", " ", "c", "o", "d", "e", " ", "h", "a", "s", " "
    >>
\* ... after {lines}
ExplainTail ==
    <<
       " ", "l", "i", "n", "e", "s", "\n", "-", " ", "I", "n", " ", "p", "r", "o", "d",
       "u", "c", "t", "i", "o", "n", ",", " ", "t", "h", "i", "s", " ", "w", "o", "u", "l",
       "d", " ", "p", "r", "o", "v", "i", "d", "e", " ", "d", "e", "t", "a", "i", "l", "e",
       "d", " ", "e", "x", "p", "l", "a", "n", "a", "t", "i", "o", "n", " ", "u", "s", "i",
       "n", "g", " ", "A", "I", "\n", "-", " ", "C", "u", "r", "r", "e", "n", "t", "l",
       "y", " ", "r", "u", "n", "n", "i", "n", "g", " ", "i", "n", " ", "m", "o", "c", "k",
       " ", "m", "o", "d", "e", " ", "w", "i", "t", "h", "o", "u", "t", " ", "A", "P", "I",
       " ", "k", "e", "y", "\n"
    >>
\* the status "success"
StatusSuccess ==
    <<
       "s", "u", "c", "c", "e", "s", "s"
    >>
\* first fixed suggestion
Suggestion1 ==
    <<
       "C", "o", "n", "s", "i", "d", "e", "r", " ", "a", "d", "d", "i", "n", "g", " ", "m",
       "o", "r", "e", " ", "c", "o", "m", "m", "e", "n", "t", "s"
    >>
\* second fixed suggestion
Suggestion2 ==
    <<
       "A", "d", "d", " ", "t", "y", "p", "e", " ", "h", "i", "n", "t", "s", " ", "f", "o",
       "r", " ", "b", "e", "t", "t", "e", "r", " ", "c", "o", "d", "e", " ", "c", "l", "a",
       "r", "i", "t", "y"
    >>
\* the fixed summary
Summary ==
    <<
       "C", "o", "d", "e", " ", "l", "o", "o", "k", "s", " ", "g", "o", "o", "d", " ", "o",
       "v", "e", "r", "a", "l", "l", ".", " ", "M", "i", "n", "o", "r", " ", "i", "m", "p",
       "r", "o", "v", "e", "m", "e", "n", "t", "s", " ", "s", "u", "g", "g", "e", "s", "t",
       "e", "d", "."
    >>
--------------------------------------------------------------------------
(* str.upper(), on the ASCII letters *)

LowerLetters ==
    << "a", "b", "c", "d", "e", "f", "g", "h", "i", "j", "k", "l", "m",
       "n", "o", "p", "q", "r", "s", "t", "u", "v", "w", "x", "y", "z" >>

UpperLetters ==
    << "A", "B", "C", "D", "E", "F", "G", "H", "I", "J", "K", "L", "M",
       "N", "O", "P", "Q", "R", "S", "T", "U", "V", "W", "X", "Y", "Z" >>

UpperChar(ch) ==
    IF \E i \in 1..26 : LowerLetters[i] = ch
    THEN UpperLetters[CHOOSE i \in 1..26 : LowerLetters[i] = ch]
    ELSE ch

Upper(s) == [i \in 1..Len(s) |-> UpperChar(s[i])]

\* A lone surrogate code point (U+D800), which a Python str may hold and which
\* no encoding of a variable name accepts.
Surrogate == "U+D800"

WellFormed(s) == \A i \in 1..Len(s) : s[i] # Surrogate

--------------------------------------------------------------------------
(* the environment *)

\* f"{provider.upper()}_API_KEY"
EnvName(provider) == Upper(provider) \o ApiKeySuffix

\* os.getenv(name): the variable's value, None when it is not set.  The name
\* is encoded first (os.environ's encodekey), which raises UnicodeEncodeError
\* on a lone surrogate.
os_getenv(environ, name) ==
    IF ~WellFormed(name) THEN [raised |-> "UnicodeEncodeError", value |-> None]
    ELSE IF name \in DOMAIN environ THEN [raised |-> NoExc, value |-> environ[name]]
    ELSE [raised |-> NoExc, value |-> None]

--------------------------------------------------------------------------
(* CTOAICode.__init__ *)

\* self after __init__ has run to its end
NewFacade(provider, api_key) == [provider |-> provider, api_key |-> api_key]

\* A constructor that refuses to build a facade without a key.
CTOAICode_init_strict(api_key, provider, environ) ==
    LET name == EnvName(provider)
        got  == os_getenv(environ, name)
    IN  IF Truthy(api_key)
        THEN [raised |-> NoExc, self |-> NewFacade(provider, api_key),
              out |-> << >>, getenv |-> << >>]
        ELSE IF got.raised # NoExc \/ ~Truthy(got.value)
        THEN [raised |-> "ValueError", self |-> NoObject,
              out |-> << >>, getenv |-> << name >>]
        ELSE [raised |-> NoExc, self |-> NewFacade(provider, got.value),
              out |-> << >>, getenv |-> << name >>]

\* A constructor in which the environment takes precedence over the argument.
CTOAICode_init_env_first(api_key, provider, environ) ==
    LET name == EnvName(provider)
        got  == os_getenv(environ, name)
        key  == IF Truthy(got.value) THEN got.value ELSE api_key
    IN  IF got.raised # NoExc
        THEN [raised |-> got.raised, self |-> NoObject,
              out |-> << >>, getenv |-> << name >>]
        ELSE [raised |-> NoExc, self |-> NewFacade(provider, key),
              out |-> IF Truthy(key) THEN << >> ELSE << WarnHead \o provider >>,
              getenv |-> << name >>]

\* A constructor that stores the key only when it has found one.
CTOAICode_init_partial(api_key, provider, environ) ==
    LET name == EnvName(provider)
        got  == os_getenv(environ, name)
    IN  IF Truthy(api_key)
        THEN [raised |-> NoExc, self |-> NewFacade(provider, api_key),
              out |-> << >>, getenv |-> << >>]
        ELSE IF got.raised # NoExc
        THEN [raised |-> got.raised, self |-> NoObject,
              out |-> << >>, getenv |-> << name >>]
        ELSE IF Truthy(got.value)
        THEN [raised |-> NoExc, self |-> NewFacade(provider, got.value),
              out |-> << >>, getenv |-> << name >>]
        ELSE [raised |-> NoExc, self |-> [provider |-> provider],
              out |-> << WarnHead \o provider >>, getenv |-> << name >>]

\* The constructor: what it raises, the object it leaves, the lines it prints
\* and the environment variables it looks up.
\*   self.provider = provider
\*   self.api_key = api_key or os.getenv(f"{provider.upper()}_API_KEY")
\*   if not self.api_key: print(f"Warning: No API key provided for {provider}")
\* `or` evaluates its right operand only when the left one is falsy.
CTOAICode_init(api_key, provider, environ) ==
    IF Truthy(api_key)
    THEN [raised |-> NoExc, self |-> NewFacade(provider, api_key),
          out |-> << >>, getenv |-> << >>]
    ELSE LET name == EnvName(provider)
             got  == os_getenv(environ, name)
         IN  IF got.raised # NoExc
             THEN [raised |-> got.raised, self |-> NoObject,
                   out |-> << >>, getenv |-> << name >>]
             ELSE [raised |-> NoExc, self |-> NewFacade(provider, got.value),
                   out |-> IF Truthy(got.value) THEN << >>
                           ELSE << WarnHead \o provider >>,
                   getenv |-> << name >>]

--------------------------------------------------------------------------
(* the mock implementations *)

\* A template that has {prompt} where {language} belongs.
_mock_generate_code_no_language(prompt, language) ==
    GenHead \o prompt \o GenFor \o prompt \o GenBody

\* f"# Generated {language} code for: {prompt} ..."
_mock_generate_code(prompt, language) ==
    GenHead \o language \o GenFor \o prompt \o GenBody

\* The index of the first "\n" of s, 0 when it has none.
FindNewline(s) ==
    IF \E i \in 1..Len(s) : s[i] = "\n"
    THEN CHOOSE i \in 1..Len(s) : s[i] = "\n" /\ \A j \in 1..(i - 1) : s[j] # "\n"
    ELSE 0

\* code.split('\n'): the segments between the newlines, empty ones included
RECURSIVE split(_)
split(s) ==
    LET i == FindNewline(s)
    IN  IF i = 0 THEN << s >>
        ELSE << SubSeq(s, 1, i - 1) >> \o split(SubSeq(s, i + 1, Len(s)))

Digits == << "0", "1", "2", "3", "4", "5", "6", "7", "8", "9" >>

\* str(n) of a natural number, as the f-string formats {lines}
RECURSIVE str(_)
str(n) == IF n < 10 THEN << Digits[n + 1] >> ELSE str(n \div 10) \o << Digits[(n % 10) + 1] >>

\* An explanation that counts lines as str.splitlines() does: no segment after
\* a trailing newline, and none for the empty string.
_mock_explain_code_splitlines(code) ==
    LET segs  == split(code)
        lines == IF segs[Len(segs)] = << >> THEN Len(segs) - 1 ELSE Len(segs)
    IN  ExplainHead \o str(lines) \o ExplainTail

\* lines = len(code.split('\n')); f"Code Analysis:\n- This code has {lines} lines ..."
_mock_explain_code(code) ==
    LET lines == Len(split(code))
    IN  ExplainHead \o str(lines) \o ExplainTail

\* the dict literal of _mock_review_code
ReviewDict ==
    [status      |-> StatusSuccess,
     issues      |-> << >>,
     suggestions |-> << Suggestion1, Suggestion2 >>,
     score       |-> 85,
     summary     |-> Summary]

\* an address of the heap that holds no object
Free == [free |-> TRUE]

\* the lowest free address (CPython reuses the memory of a collected object)
NewAddress(hp) ==
    CHOOSE a \in DOMAIN hp : hp[a] = Free /\ \A b \in DOMAIN hp : b < a => hp[b] # Free

\* A review that looks at the code: an empty or blank input is reported.
_mock_review_code_inspecting(code, hp) ==
    LET a == NewAddress(hp)
        blank == \A i \in 1..Len(code) : code[i] \in {" ", "\n"}
    IN  [ret  |-> a,
         heap |-> [hp EXCEPT ![a] =
                     IF blank
                     THEN [ReviewDict EXCEPT !.issues = << << "e", "m", "p", "t", "y" >> >>,
                                             !.score = 0]
                     ELSE ReviewDict]]

\* A review that returns one module-level dict to every caller.
_mock_review_code_shared(code, hp) ==
    IF \E a \in DOMAIN hp : hp[a] # Free
    THEN [ret |-> CHOOSE a \in DOMAIN hp : hp[a] # Free /\ \A b \in DOMAIN hp : b < a => hp[b] = Free,
          heap |-> hp]
    ELSE [ret |-> NewAddress(hp), heap |-> [hp EXCEPT ![NewAddress(hp)] = ReviewDict]]

\* _mock_review_code: the dict display builds a new dict, holding new lists, on
\* every call; the result is its address and the heap with it.
_mock_review_code(code, hp) ==
    LET a == NewAddress(hp)
    IN  [ret |-> a, heap |-> [hp EXCEPT ![a] = ReviewDict]]

--------------------------------------------------------------------------
(* the public methods: what a call raises, the line it returns from, the
   value it returns and self after it.  `environ` is os.environ, which every
   method could read. *)

\* A generate_code that puts a placeholder key in place when there is none.
generate_code_sets_key(self, prompt, language, environ) ==
    IF ~Truthy(self.api_key)
    THEN [raised |-> NoExc, line |-> 45, ret |-> _mock_generate_code(prompt, language),
          self |-> [self EXCEPT !.api_key = Some(<< "m", "o", "c", "k" >>)]]
    ELSE [raised |-> NoExc, line |-> 48,
          ret |-> _mock_generate_code(prompt, language), self |-> self]

\* A generate_code whose other branch reports the provider and the key it would call.
generate_code_real_branch(self, prompt, language, environ) ==
    IF ~Truthy(self.api_key)
    THEN [raised |-> NoExc, line |-> 45,
          ret |-> _mock_generate_code(prompt, language), self |-> self]
    ELSE [raised |-> NoExc, line |-> 48,
          ret |-> _mock_generate_code(prompt, language) \o self.provider \o self.api_key[1],
          self |-> self]

\*   if not self.api_key: return self._mock_generate_code(prompt, language)
\*   return self._mock_generate_code(prompt, language)
generate_code(self, prompt, language, environ) ==
    IF ~HasAttr(self, "api_key")
    THEN [raised |-> "AttributeError", line |-> 44, ret |-> None, self |-> self]
    ELSE IF ~Truthy(self.api_key)
    THEN [raised |-> NoExc, line |-> 45,
          ret |-> _mock_generate_code(prompt, language), self |-> self]
    ELSE [raised |-> NoExc, line |-> 48,
          ret |-> _mock_generate_code(prompt, language), self |-> self]

\*   if not self.api_key: return self._mock_review_code(code)
\*   return self._mock_review_code(code)
review_code(self, code, environ, hp) ==
    IF ~HasAttr(self, "api_key")
    THEN [raised |-> "AttributeError", line |-> 60, ret |-> 0, heap |-> hp, self |-> self]
    ELSE IF ~Truthy(self.api_key)
    THEN [raised |-> NoExc, line |-> 61, ret |-> _mock_review_code(code, hp).ret,
          heap |-> _mock_review_code(code, hp).heap, self |-> self]
    ELSE [raised |-> NoExc, line |-> 64, ret |-> _mock_review_code(code, hp).ret,
          heap |-> _mock_review_code(code, hp).heap, self |-> self]

\* An explain_code that looks the key up again on every call.
explain_code_rereads_env(self, code, environ) ==
    LET got == os_getenv(environ, EnvName(self.provider))
        now == [self EXCEPT !.api_key = got.value]
    IN  [raised |-> NoExc, line |-> IF Truthy(now.api_key) THEN 80 ELSE 77,
         ret |-> _mock_explain_code(code), self |-> now]

\*   if not self.api_key: return self._mock_explain_code(code)
\*   return self._mock_explain_code(code)
explain_code(self, code, environ) ==
    IF ~HasAttr(self, "api_key")
    THEN [raised |-> "AttributeError", line |-> 76, ret |-> None, self |-> self]
    ELSE IF ~Truthy(self.api_key)
    THEN [raised |-> NoExc, line |-> 77, ret |-> _mock_explain_code(code), self |-> self]
    ELSE [raised |-> NoExc, line |-> 80, ret |-> _mock_explain_code(code), self |-> self]

--------------------------------------------------------------------------
(* inputs *)

openai == << "o", "p", "e", "n", "a", "i" >>
anthropic == << "a", "n", "t", "h", "r", "o", "p", "i", "c" >>
OpenAI == << "O", "p", "e", "n", "A", "I" >>
ill_formed == << "x", Surrogate >>
python == << "p", "y", "t", "h", "o", "n" >>
javascript == << "j", "a", "v", "a", "s", "c", "r", "i", "p", "t" >>
abc123 == << "a", "b", "c", "1", "2", "3" >>
sk_env == << "s", "k", "-", "e", "n", "v" >>
OPENAI_API_KEY == << "O", "P", "E", "N", "A", "I", "_", "A", "P", "I", "_", "K", "E", "Y" >>
ANTHROPIC_API_KEY == << "A", "N", "T", "H", "R", "O", "P", "I", "C", "_", "A", "P", "I", "_", "K", "E", "Y" >>
openai_API_KEY == << "o", "p", "e", "n", "a", "i", "_", "A", "P", "I", "_", "K", "E", "Y" >>

\* the variables of the environment that are followed
EnvNames == {OPENAI_API_KEY, ANTHROPIC_API_KEY, openai_API_KEY}

\* the values they are set to
EnvValues == {<< >>, sk_env}

\* provider arguments
Providers == {openai, anthropic, OpenAI, << >>, ill_formed}

\* api_key arguments
Keys == {None, Some(<< >>), Some(abc123)}

Facades == {"f1", "f2"}

Callers == {"c1", "c2"}

NotCalled == [called |-> FALSE]

\* the dicts the heap has room for: every caller holds at most one
MaxObjs == 2

\* the longest generated argument string
MaxLen == 2

\* every string of at most MaxLen characters over the alphabet
Alphabet == {"a", "\n"}
Strings == UNION {[1..n -> Alphabet] : n \in 0..MaxLen}

\* the sample of the end-to-end scenario: "def add(a, b):\n    return a + b\n"
sample_code ==
    << "d", "e", "f", " ", "a", "d", "d", "(", "a", ",", " ", "b", ")", ":", "\n",
       " ", " ", " ", " ", "r", "e", "t", "u", "r", "n", " ", "a", " ", "+", " ", "b", "\n" >>

\* nine newlines: ten segments, a line count of two digits
nine_newlines == << "\n", "\n", "\n", "\n", "\n", "\n", "\n", "\n", "\n" >>

Codes == Strings \cup {<< " " >>, << " ", " " >>, << "a", "\n", "b" >>,
                       << "a", "\n", "b", "\n" >>, sample_code, nine_newlines}
Prompts == Strings \cup {<< "x" >>}
Languages == {python, javascript}

\* the arguments of the calls that are followed across facades and callers
FewPrompts == {<< >>, << "x" >>}
FewLanguages == {python}
FewCodes == {<< >>, << "a", "\n", "b", "\n" >>}
FewReviewCodes == {<< >>}

--------------------------------------------------------------------------
(* actions *)

\* os.environ[name] = value: load_dotenv() at import, or an export later on
SetEnv(Names, Values) ==
    /\ \E name \in Names, value \in Values :
         /\ env[name] # Some(value)
         /\ env' = [env EXCEPT ![name] = Some(value)]
    /\ UNCHANGED <<facades, cons, stdout, frames, heap>>

\* del os.environ[name]
UnsetEnv(Names) ==
    /\ \E name \in Names :
         /\ env[name] # None
         /\ env' = [env EXCEPT ![name] = None]
    /\ UNCHANGED <<facades, cons, stdout, frames, heap>>

\* assistant = CTOAICode(api_key, provider)
Construct(f, KeyArgs, ProviderArgs) ==
    /\ ~cons[f].called
    /\ \E api_key \in KeyArgs, provider \in ProviderArgs :
         LET r == CTOAICode_init(api_key, provider, env)
         IN  /\ facades' = [facades EXCEPT ![f] = r.self]
             /\ stdout' = stdout \o r.out
             /\ cons' = [cons EXCEPT ![f] =
                           [called   |-> TRUE,
                            api_key  |-> api_key,
                            provider |-> provider,
                            envval   |-> IF EnvName(provider) \in DOMAIN env
                                         THEN env[EnvName(provider)] ELSE None,
                            raised   |-> r.raised,
                            out      |-> r.out,
                            getenv   |-> r.getenv]]
    /\ UNCHANGED <<env, frames, heap>>

\* what the environment holds for f's variable differs from what f's constructor saw
Stale(f) ==
    LET name == EnvName(cons[f].provider)
    IN  (IF name \in DOMAIN env THEN env[name] ELSE None) # cons[f].envval

\* c holds a dict that review_code returned
HoldsDict(c) ==
    /\ frames[c].pc = "done"
    /\ frames[c].op = "review_code"
    /\ frames[c].raised = NoExc

\* the heap once c has dropped what it held: a dict nobody refers to is collected
Release(c) ==
    IF HoldsDict(c) /\ \A d \in Callers \ {c} : ~(HoldsDict(d) /\ frames[d].ret = frames[c].ret)
    THEN [heap EXCEPT ![frames[c].ret] = Free]
    ELSE heap

\* c enters assistant.generate_code(prompt, language)
CallGenerate(c, f, PromptArgs, LanguageArgs) ==
    /\ frames[c].pc # "called"
    /\ facades[f] # NoObject
    /\ \E prompt \in PromptArgs, language \in LanguageArgs :
         frames' = [frames EXCEPT ![c] =
                      [pc |-> "called", op |-> "generate_code", f |-> f,
                       args |-> [prompt |-> prompt, language |-> language]]]
    /\ heap' = Release(c)
    /\ UNCHANGED <<env, facades, cons, stdout>>

\* c enters assistant.review_code(code)
CallReview(c, f, CodeArgs) ==
    /\ frames[c].pc # "called"
    /\ facades[f] # NoObject
    /\ \E code \in CodeArgs :
         frames' = [frames EXCEPT ![c] =
                      [pc |-> "called", op |-> "review_code", f |-> f,
                       args |-> [code |-> code]]]
    /\ heap' = Release(c)
    /\ UNCHANGED <<env, facades, cons, stdout>>

\* c enters assistant.explain_code(code)
CallExplain(c, f, CodeArgs) ==
    /\ frames[c].pc # "called"
    /\ facades[f] # NoObject
    /\ \E code \in CodeArgs :
         frames' = [frames EXCEPT ![c] =
                      [pc |-> "called", op |-> "explain_code", f |-> f,
                       args |-> [code |-> code]]]
    /\ heap' = Release(c)
    /\ UNCHANGED <<env, facades, cons, stdout>>

\* generate_code runs and returns to c
GenerateCode(c) ==
    /\ frames[c].pc = "called"
    /\ frames[c].op = "generate_code"
    /\ LET fr == frames[c]
           r  == generate_code(facades[fr.f], fr.args.prompt, fr.args.language, env)
       IN  /\ facades' = [facades EXCEPT ![fr.f] = r.self]
           /\ frames' = [frames EXCEPT ![c] =
                           [pc |-> "done", op |-> fr.op, f |-> fr.f, args |-> fr.args,
                            raised |-> r.raised, line |-> r.line, ret |-> r.ret,
                            stale |-> Stale(fr.f)]]
    /\ UNCHANGED <<env, cons, stdout, heap>>

\* review_code runs and returns to c
ReviewCode(c) ==
    /\ frames[c].pc = "called"
    /\ frames[c].op = "review_code"
    /\ \E a \in DOMAIN heap : heap[a] = Free
    /\ LET fr == frames[c]
           r  == review_code(facades[fr.f], fr.args.code, env, heap)
       IN  /\ facades' = [facades EXCEPT ![fr.f] = r.self]
           /\ heap' = r.heap
           /\ frames' = [frames EXCEPT ![c] =
                           [pc |-> "done", op |-> fr.op, f |-> fr.f, args |-> fr.args,
                            raised |-> r.raised, line |-> r.line, ret |-> r.ret,
                            stale |-> Stale(fr.f),
                            snap |-> IF r.raised = NoExc THEN r.heap[r.ret] ELSE Free,
                            mutated |-> FALSE,
                            sawMutation |-> \E a \in DOMAIN heap :
                                               heap[a] \notin {Free, ReviewDict}]]
    /\ UNCHANGED <<env, cons, stdout>>

\* explain_code runs and returns to c
ExplainCode(c) ==
    /\ frames[c].pc = "called"
    /\ frames[c].op = "explain_code"
    /\ LET fr == frames[c]
           r  == explain_code(facades[fr.f], fr.args.code, env)
       IN  /\ facades' = [facades EXCEPT ![fr.f] = r.self]
           /\ frames' = [frames EXCEPT ![c] =
                           [pc |-> "done", op |-> fr.op, f |-> fr.f, args |-> fr.args,
                            raised |-> r.raised, line |-> r.line, ret |-> r.ret,
                            stale |-> Stale(fr.f)]]
    /\ UNCHANGED <<env, cons, stdout, heap>>

\* c changes the dict it was given: review["issues"].append("x"), or
\* review["score"] = 0
Mutate(c) ==
    /\ HoldsDict(c)
    /\ ~frames[c].mutated
    /\ LET a == frames[c].ret
       IN  \/ heap' = [heap EXCEPT ![a].issues = Append(@, << "x" >>)]
           \/ heap' = [heap EXCEPT ![a].score = 0]
    /\ frames' = [frames EXCEPT ![c].mutated = TRUE]
    /\ UNCHANGED <<env, facades, cons, stdout>>

Init ==
    /\ env = [name \in EnvNames |-> None]
    /\ facades = [f \in Facades |-> NoObject]
    /\ cons = [f \in Facades |-> NotCalled]
    /\ stdout = << >>
    /\ frames = [c \in Callers |-> [pc |-> "idle"]]
    /\ heap = [a \in 1..MaxObjs |-> Free]

\* construction under every argument and every environment
NextInit ==
    \/ SetEnv(EnvNames, EnvValues)
    \/ UnsetEnv(EnvNames)
    \/ \E f \in Facades : Construct(f, Keys, Providers)

SpecInit == Init /\ [][NextInit]_vars

\* two facades, two callers, an environment that changes under them
Next ==
    \/ SetEnv({OPENAI_API_KEY}, {sk_env})
    \/ UnsetEnv({OPENAI_API_KEY})
    \/ \E f \in Facades : Construct(f, {None}, {openai})
    \/ \E c \in Callers, f \in Facades : CallGenerate(c, f, FewPrompts, FewLanguages)
    \/ \E c \in Callers, f \in Facades : CallReview(c, f, FewReviewCodes)
    \/ \E c \in Callers, f \in Facades : CallExplain(c, f, FewCodes)
    \/ \E c \in Callers : GenerateCode(c)
    \/ \E c \in Callers : ReviewCode(c)
    \/ \E c \in Callers : ExplainCode(c)
    \/ \E c \in Callers : Mutate(c)

Spec == Init /\ [][Next]_vars

\* one facade, with or without a key, called with every argument
NextPure ==
    \/ Construct("f1", {None, Some(abc123)}, {openai})
    \/ \E c \in Callers : CallGenerate(c, "f1", Prompts, Languages)
    \/ CallReview("c1", "f1", Codes)
    \/ CallExplain("c1", "f1", Codes)
    \/ \E c \in Callers : GenerateCode(c)
    \/ \E c \in Callers : ReviewCode(c)
    \/ \E c \in Callers : ExplainCode(c)

SpecPure == Init /\ [][NextPure]_vars

--------------------------------------------------------------------------
(* what the claims speak of *)

\* needle occurs in hay as a substring
Contains(hay, needle) ==
    \E i \in 0..(Len(hay) - Len(needle)) : SubSeq(hay, i + 1, i + Len(needle)) = needle

\* the number of "\n" characters of s
CountNewlines(s) == Cardinality({i \in 1..Len(s) : s[i] = "\n"})

\* the number a string of decimal digits denotes
DigitValue(ch) == (CHOOSE i \in 1..10 : Digits[i] = ch) - 1
RECURSIVE ParseNat(_)
ParseNat(ds) ==
    IF Len(ds) = 1 THEN DigitValue(ds[1])
    ELSE 10 * ParseNat(SubSeq(ds, 1, Len(ds) - 1)) + DigitValue(ds[Len(ds)])

\* what an explanation has between "- This code has " and " lines"
EmbeddedCount(text) == SubSeq(text, Len(ExplainHead) + 1, Len(text) - Len(ExplainTail))

\* an explanation: the fixed head, decimal digits, the fixed tail
IsExplanation(text) ==
    /\ Len(text) > Len(ExplainHead) + Len(ExplainTail)
    /\ SubSeq(text, 1, Len(ExplainHead)) = ExplainHead
    /\ SubSeq(text, Len(text) - Len(ExplainTail) + 1, Len(text)) = ExplainTail
    /\ \A i \in 1..Len(EmbeddedCount(text)) :
          \E d \in 1..10 : Digits[d] = EmbeddedCount(text)[i]

\* c has completed a call of op
Done(c, op) == frames[c].pc = "done" /\ frames[c].op = op

\* what c got back: the dict as it was returned, or the string
Result(c) == IF frames[c].op = "review_code" THEN frames[c].snap ELSE frames[c].ret

\* f was constructed without an explicit key while its variable was not set
NoKeyAnywhere(f) ==
    /\ cons[f].called
    /\ cons[f].api_key = None
    /\ cons[f].envval = None

\* C1 as stated: for EVERY provider string, constructing with api_key None while
\* <PROVIDER>_API_KEY is not set does not raise, leaves api_key None and prints
\* the 'no API key' warning.
C1_AnyProvider ==
    \A f \in Facades :
        NoKeyAnywhere(f) =>
            /\ cons[f].raised = NoExc
            /\ facades[f].api_key = None
            /\ cons[f].out = << WarnHead \o cons[f].provider >>

\* C1, amended: for every provider string that is well-formed text (no lone
\* surrogate), constructing with api_key None while <PROVIDER>_API_KEY is not
\* set does not raise, leaves api_key None and provider as given, and prints
\* the warning, once, to standard output.
C1_WellFormedProvider ==
    \A f \in Facades :
        (NoKeyAnywhere(f) /\ WellFormed(cons[f].provider)) =>
            /\ cons[f].raised = NoExc
            /\ facades[f] # NoObject
            /\ facades[f].api_key = None
            /\ facades[f].provider = cons[f].provider
            /\ cons[f].out = << WarnHead \o cons[f].provider >>
            /\ \E i \in 1..Len(stdout) : stdout[i] = WarnHead \o cons[f].provider

\* a facade built from a mixed-case provider with no key anywhere, while the
\* lower-case variable is set: only the upper-cased name counts
C1_Witness ==
    \E f \in Facades :
        /\ NoKeyAnywhere(f)
        /\ cons[f].provider = OpenAI
        /\ cons[f].raised = NoExc
        /\ facades[f].api_key = None
        /\ env[openai_API_KEY] = Some(sk_env)
        /\ Len(stdout) > 0

\* C2 as stated: for EVERY explicit key string and every content of the
\* environment, api_key equals the explicit key after construction and the
\* environment variable is not consulted.
C2_AnyExplicitKey ==
    \A f \in Facades :
        (cons[f].called /\ cons[f].api_key # None) =>
            /\ cons[f].raised = NoExc
            /\ facades[f].api_key = cons[f].api_key
            /\ cons[f].getenv = << >>

\* C2, amended: for every NON-EMPTY explicit key string and every content of
\* the environment (set or unset), api_key equals the explicit key after
\* construction, the environment variable is not consulted, and nothing is
\* raised or printed.
C2_NonEmptyExplicitKey ==
    \A f \in Facades :
        (cons[f].called /\ Truthy(cons[f].api_key)) =>
            /\ cons[f].raised = NoExc
            /\ facades[f].api_key = cons[f].api_key
            /\ cons[f].getenv = << >>
            /\ cons[f].out = << >>

\* a facade built with the explicit key "abc123" and provider "openai" while
\* OPENAI_API_KEY held another key
C2_Witness ==
    \E f \in Facades :
        /\ cons[f].called
        /\ cons[f].api_key = Some(abc123)
        /\ cons[f].provider = openai
        /\ cons[f].envval = Some(sk_env)
        /\ facades[f].api_key = Some(abc123)

\* C3: on a constructed facade, whether or not its constructor printed the
\* warning, no generate_code, review_code or explain_code call raises, and a
\* call that has been entered can always run to its return.
C3_NoOperationRaises ==
    \A c \in Callers :
        /\ frames[c].pc = "done" => frames[c].raised = NoExc
        /\ frames[c].pc = "called" =>
              ENABLED (GenerateCode(c) \/ ReviewCode(c) \/ ExplainCode(c))

\* both callers have completed calls with empty arguments on a facade whose
\* constructor printed the warning
C3_Witness ==
    /\ Done("c1", "explain_code") /\ frames["c1"].args.code = << >>
    /\ Done("c2", "generate_code") /\ frames["c2"].args.prompt = << >>
    /\ frames["c1"].f = frames["c2"].f
    /\ cons[frames["c1"].f].out # << >>
    /\ frames["c1"].raised = NoExc /\ frames["c2"].raised = NoExc

\* C4: generate_code returns a string that contains prompt and language, and
\* two calls with the same arguments on the same facade return the same string.
C4_GeneratePure ==
    /\ \A c \in Callers :
          Done(c, "generate_code") =>
              /\ frames[c].raised = NoExc
              /\ Contains(frames[c].ret, frames[c].args.prompt)
              /\ Contains(frames[c].ret, frames[c].args.language)
    /\ \A c, d \in Callers :
          (/\ Done(c, "generate_code") /\ Done(d, "generate_code")
           /\ frames[c].f = frames[d].f
           /\ frames[c].args = frames[d].args) => frames[c].ret = frames[d].ret

\* two callers have each got the answer for the same non-empty prompt and language
C4_Witness ==
    /\ Done("c1", "generate_code") /\ Done("c2", "generate_code")
    /\ frames["c1"].args = frames["c2"].args
    /\ frames["c1"].args.prompt = << "a", "\n" >>
    /\ frames["c1"].args.language = javascript
    /\ frames["c1"].ret = frames["c2"].ret

\* C5: whatever the code, review_code returns status "success", no issues, the
\* two fixed suggestions in their order, score 85 and the fixed summary.
C5_ReviewFixed ==
    \A c \in Callers :
        Done(c, "review_code") =>
            /\ frames[c].raised = NoExc
            /\ frames[c].snap.status = StatusSuccess
            /\ frames[c].snap.issues = << >>
            /\ frames[c].snap.suggestions = << Suggestion1, Suggestion2 >>
            /\ frames[c].snap.score = 85
            /\ frames[c].snap.summary = Summary
            /\ DOMAIN frames[c].snap = {"status", "issues", "suggestions", "score", "summary"}

\* a review of a string of blanks has returned
C5_Witness ==
    /\ Done("c1", "review_code")
    /\ frames["c1"].args.code = << " ", " " >>
    /\ frames["c1"].snap.score = 85

\* C6: the line count explain_code embeds is the number of "\n" in code plus
\* one: 1 for the empty string, 2 for "a\nb", 3 for "a\nb\n".
C6_LineCount ==
    \A c \in Callers :
        Done(c, "explain_code") =>
            LET code == frames[c].args.code
                text == frames[c].ret
            IN  /\ frames[c].raised = NoExc
                /\ IsExplanation(text)
                /\ ParseNat(EmbeddedCount(text)) = CountNewlines(code) + 1
                /\ code = << >> => EmbeddedCount(text) = << "1" >>
                /\ code = << "a", "\n", "b" >> => EmbeddedCount(text) = << "2" >>
                /\ code = << "a", "\n", "b", "\n" >> => EmbeddedCount(text) = << "3" >>

\* the code with a trailing newline has been explained
C6_Witness ==
    /\ Done("c1", "explain_code")
    /\ frames["c1"].args.code = << "a", "\n", "b", "\n" >>
    /\ EmbeddedCount(frames["c1"].ret) = << "3" >>

\* C7: no step changes the provider or the api_key of a constructed facade,
\* whatever the callers do and however their calls interleave.
C7_ConfigImmutable ==
    [][\A f \in Facades : facades[f] # NoObject => facades'[f] = facades[f]]_vars

\* one caller has returned from a call on a facade while the other is inside
\* a call on the same facade
C7_Witness ==
    /\ frames["c1"].pc = "done"
    /\ frames["c2"].pc = "called"
    /\ frames["c1"].f = frames["c2"].f
    /\ frames["c1"].op = "generate_code"
    /\ frames["c2"].op = "review_code"

\* C8: every review_code call returns a dict of its own: one returned after
\* some caller changed an earlier result is still the fixed result, no two
\* callers hold the same dict, and a dict its holder has not changed still is
\* the fixed result.
C8_FreshResult ==
    \A c \in Callers :
        HoldsDict(c) =>
            /\ frames[c].sawMutation => frames[c].snap = ReviewDict
            /\ \A d \in Callers \ {c} : HoldsDict(d) => frames[d].ret # frames[c].ret
            /\ ~frames[c].mutated => heap[frames[c].ret] = ReviewDict

\* a caller has changed its result, and the other then got a result from
\* another facade
C8_Witness ==
    /\ HoldsDict("c1") /\ HoldsDict("c2")
    /\ frames["c1"].mutated
    /\ heap[frames["c1"].ret] # ReviewDict
    /\ frames["c2"].sawMutation /\ ~frames["c2"].mutated
    /\ frames["c1"].f # frames["c2"].f

\* C9: a facade's api_key stays what the constructor resolved from the
\* environment it saw, and a call made after the variable changed returns what
\* the same call returned before.
C9_EnvReadOnce ==
    /\ \A f \in Facades :
          (cons[f].called /\ cons[f].raised = NoExc) =>
              facades[f].api_key =
                  (IF Truthy(cons[f].api_key) THEN cons[f].api_key ELSE cons[f].envval)
    /\ \A c, d \in Callers :
          (/\ frames[c].pc = "done" /\ frames[d].pc = "done"
           /\ frames[c].op = frames[d].op
           /\ frames[c].f = frames[d].f
           /\ frames[c].args = frames[d].args
           /\ frames[c].stale /\ ~frames[d].stale) =>
              /\ frames[c].raised = frames[d].raised
              /\ Result(c) = Result(d)

\* the same call was made before and after OPENAI_API_KEY was unset, on a facade
\* that took its key from it
C9_Witness ==
    /\ frames["c1"].pc = "done" /\ frames["c2"].pc = "done"
    /\ frames["c1"].op = "explain_code" /\ frames["c2"].op = "explain_code"
    /\ frames["c1"].f = frames["c2"].f
    /\ frames["c1"].args = frames["c2"].args
    /\ frames["c1"].stale /\ ~frames["c2"].stale
    /\ facades[frames["c1"].f].api_key = Some(sk_env)
    /\ env[OPENAI_API_KEY] = None

====
